---- MODULE Spec2Model ----
(***************************************************************************)
(* Model of the HR / finance backend in src/backend/server.py.             *)
(*                                                                         *)
(* Every collection of the document store is a sequence of documents in    *)
(* natural (insertion) order.  find_one / update_one / delete_one act on   *)
(* ONE document matching the filter; which one, when several match, is     *)
(* left open (any matching document).  Handlers of the sequential          *)
(* specifications are one action each; the concurrent specifications       *)
(* split a handler at every awaited storage call.                          *)
(*                                                                         *)
(* Documents carry the fields the handlers read or write.  Money amounts   *)
(* are integers drawn from multiples of 25, on which the float product     *)
(* basic_salary * 0.12 of the source is exact.                             *)
(***************************************************************************)
EXTENDS Integers, Sequences, FiniteSets, TLC

\* ------------------------------------------------------------------ bounds
MaxEmployees == 2
MaxStudents == 2
MaxPayroll == 2
MaxBudgets == 2
MaxTransactions == 2
\* Requests in flight at the same time in the concurrent specifications.
NumClients == 2

\* ------------------------------------------------------------ input domains
EmployeeIds == {"FAC0001", "MGT0001"}
StudentIds == {"STU0001", "STU0002"}

NoAllowances == [k \in {} |-> 0]

\* The compensation part of an EmployeeCreate payload.
EmployeeProfiles ==
    { [name |-> "Asha", basic_salary |-> 50000,
       allowances |-> [hra |-> 10000, da |-> 7500]],
      [name |-> "Ravi", basic_salary |-> 20000, allowances |-> NoAllowances] }

EmployeeCreate ==
    { [employee_id |-> e, name |-> p.name, basic_salary |-> p.basic_salary,
       allowances |-> p.allowances] : e \in EmployeeIds, p \in EmployeeProfiles }

StudentCreate ==
    [student_id : StudentIds, name : {"Diya", "Arjun"}]

PersonIds == {"FAC0001", "STU0001"}
Dates == {"2025-03-03", "2025-03-04"}
None == "None"

\* The submitted fields of an AttendanceCreate payload besides its key.
AttendanceMarks ==
    { [person_type |-> "employee", status |-> "present", remarks |-> None,
       marked_by |-> None],
      [person_type |-> "employee", status |-> "absent", remarks |-> "sick",
       marked_by |-> "admin"],
      [person_type |-> "student", status |-> "leave", remarks |-> None,
       marked_by |-> "admin"],
      [person_type |-> "student", status |-> "half_day", remarks |-> "sick",
       marked_by |-> None] }

AttendanceCreate ==
    { [person_id |-> p, date |-> d, person_type |-> m.person_type,
       status |-> m.status, remarks |-> m.remarks, marked_by |-> m.marked_by] :
      p \in PersonIds, d \in Dates, m \in AttendanceMarks }

Months == {"March", "April"}
Years == {2025}
PayrollCreate == [employee_id : EmployeeIds, month : Months, year : Years]

Categories == {"Infrastructure", "Salaries"}
BudgetCreate ==
    [fiscal_year : {"2025-26"}, category : Categories, allocated_amount : {500000}]

TransactionCreate ==
    [category : Categories, amount : {1000}, transaction_type : {"debit", "credit"}]
    \cup { [category |-> "Infrastructure", amount |-> 1000,
            transaction_type |-> "refund"],
          [category |-> "Infrastructure", amount |-> -250,
            transaction_type |-> "debit"] }

Emails == {"admin@sgsu.edu.in", "hr@sgsu.edu.in"}
Passwords == {"admin123", "hr123"}
Roles == {"admin", "hr"}

UserCreate ==
    { [email |-> e, password |-> p, name |-> "Priya Nair",
       role |-> IF e = "admin@sgsu.edu.in" THEN "admin" ELSE "hr"] :
      e \in Emails, p \in Passwords }

UserLogin == [email : Emails, password : Passwords]

\* The salts bcrypt.gensalt() may draw.
Salts == {"saltA", "saltB"}

\* The instants (minutes since start-up) at which requests arrive.
Instants == {0, 1, 1439, 1440, 1441, 2880}

VARIABLES employees, students, attendance, payroll, budgets, transactions,
          resp, reqs, users, now

vars == <<employees, students, attendance, payroll, budgets, transactions,
          resp, reqs, users, now>>

\* ------------------------------------------------------- storage primitives
\* Positions of the documents of coll that satisfy the filter {"employee_id": id}.
With_employee_id(coll, id) == {i \in 1..Len(coll) : coll[i].employee_id = id}

\* Positions of the documents of coll that satisfy the filter {"student_id": id}.
With_student_id(coll, id) == {i \in 1..Len(coll) : coll[i].student_id = id}

\* Positions of the documents that satisfy {"person_id": p, "date": d}.
With_person_date(coll, p, d) ==
    {i \in 1..Len(coll) : coll[i].person_id = p /\ coll[i].date = d}

\* Positions of the documents that satisfy {"employee_id": e, "month": m, "year": y}.
With_period(coll, e, m, y) ==
    {i \in 1..Len(coll) :
        coll[i].employee_id = e /\ coll[i].month = m /\ coll[i].year = y}

\* Positions of the documents that satisfy {"id": id}.
With_id(coll, id) == {i \in 1..Len(coll) : coll[i].id = id}

\* Positions of the documents that satisfy {"category": c}.
With_category(coll, c) == {i \in 1..Len(coll) : coll[i].category = c}

\* insert_one: the document is appended.
InsertOne(coll, doc) == Append(coll, doc)

\* Mutant of SetFields: only the status is written.
SetStatusOnly(doc, data) == [doc EXCEPT !.status = data.status]

\* {"$set": data}: the fields of data overwrite the document's, the others stay.
SetFields(doc, data) ==
    [f \in DOMAIN doc |-> IF f \in DOMAIN data THEN data[f] ELSE doc[f]]

\* delete_one at position i.
RemoveAt(coll, i) ==
    [j \in 1..(Len(coll) - 1) |-> IF j < i THEN coll[j] ELSE coll[j + 1]]

Clients == 1..NumClients

IdleRequest == [pc |-> "idle", arg |-> <<>>, local |-> <<>>]

\* The response of a handler: status is OK or the raised HTTP error, body the
\* returned document (a sequence of length 0 or 1).
Response(op, status, arg, body) ==
    [op |-> op, status |-> status, arg |-> arg, body |-> body]

NoResponse == Response("none", "OK", <<>>, <<>>)

\* ---------------------------------------------------------------- Directory
create_employee(employee) ==
    /\ IF With_employee_id(employees, employee.employee_id) # {}
       THEN /\ employees' = employees
            /\ resp' = Response("create_employee", "Conflict", <<employee>>, <<>>)
       ELSE /\ Len(employees) < MaxEmployees
            /\ employees' = InsertOne(employees, employee)
            /\ resp' = Response("create_employee", "OK", <<employee>>, <<employee>>)
    /\ UNCHANGED <<users, now, students, attendance, payroll, budgets, transactions, reqs>>

\* Mutant of update_employee: the stored payroll records of the employee are
\* recomputed from the new compensation.
update_employee_recomputing(employee_id, employee_data) ==
    /\ LET existing == With_employee_id(employees, employee_id)
       IN IF existing = {}
          THEN /\ employees' = employees
               /\ payroll' = payroll
               /\ resp' = Response("update_employee", "NotFound",
                                   <<employee_id, employee_data>>, <<>>)
          ELSE \E i \in existing :
               /\ employees' = [employees EXCEPT ![i] = employee_data]
               /\ payroll' = [k \in 1..Len(payroll) |->
                                IF payroll[k].employee_id = employee_id
                                THEN [payroll[k] EXCEPT
                                        !.basic_salary = employee_data.basic_salary,
                                        !.allowances = employee_data.allowances]
                                ELSE payroll[k]]
               /\ resp' = Response("update_employee", "OK",
                                   <<employee_id, employee_data>>, <<employees'[i]>>)
    /\ UNCHANGED <<users, now, students, attendance, budgets, transactions, reqs>>

update_employee(employee_id, employee_data) ==
    /\ LET existing == With_employee_id(employees, employee_id)
       IN IF existing = {}
          THEN /\ employees' = employees
               /\ resp' = Response("update_employee", "NotFound",
                                   <<employee_id, employee_data>>, <<>>)
          ELSE \E i \in existing :
               /\ employees' = [employees EXCEPT ![i] = SetFields(@, employee_data)]
               /\ LET updated == With_employee_id(employees', employee_id)
                  IN IF updated = {}
                     THEN resp' = Response("update_employee", "Internal",
                                           <<employee_id, employee_data>>, <<>>)
                     ELSE \E j \in updated :
                          resp' = Response("update_employee", "OK",
                                           <<employee_id, employee_data>>,
                                           <<employees'[j]>>)
    /\ UNCHANGED <<users, now, students, attendance, payroll, budgets, transactions, reqs>>

\* The documents of coll that do not reference employee_id, in order.
RECURSIVE Without_employee_id(_, _)
Without_employee_id(coll, employee_id) ==
    IF coll = <<>> THEN <<>>
    ELSE IF Head(coll).employee_id = employee_id
         THEN Without_employee_id(Tail(coll), employee_id)
         ELSE <<Head(coll)>> \o Without_employee_id(Tail(coll), employee_id)

\* Mutant of delete_employee: the delete cascades to the employee's payroll
\* records.
delete_employee_cascading(employee_id) ==
    /\ LET found == With_employee_id(employees, employee_id)
       IN IF found = {}
          THEN /\ employees' = employees
               /\ payroll' = payroll
               /\ resp' = Response("delete_employee", "NotFound", <<employee_id>>, <<>>)
          ELSE \E i \in found :
               /\ employees' = RemoveAt(employees, i)
               /\ payroll' = Without_employee_id(payroll, employee_id)
               /\ resp' = Response("delete_employee", "OK", <<employee_id>>, <<>>)
    /\ UNCHANGED <<users, now, students, attendance, budgets, transactions, reqs>>

delete_employee(employee_id) ==
    /\ LET found == With_employee_id(employees, employee_id)
       IN IF found = {}
          THEN /\ employees' = employees
               /\ resp' = Response("delete_employee", "NotFound", <<employee_id>>, <<>>)
          ELSE \E i \in found :
               /\ employees' = RemoveAt(employees, i)
               /\ resp' = Response("delete_employee", "OK", <<employee_id>>, <<>>)
    /\ UNCHANGED <<users, now, students, attendance, payroll, budgets, transactions, reqs>>

create_student(student) ==
    /\ IF With_student_id(students, student.student_id) # {}
       THEN /\ students' = students
            /\ resp' = Response("create_student", "Conflict", <<student>>, <<>>)
       ELSE /\ Len(students) < MaxStudents
            /\ students' = InsertOne(students, student)
            /\ resp' = Response("create_student", "OK", <<student>>, <<student>>)
    /\ UNCHANGED <<users, now, employees, attendance, payroll, budgets, transactions, reqs>>

update_student(student_id, student_data) ==
    /\ LET existing == With_student_id(students, student_id)
       IN IF existing = {}
          THEN /\ students' = students
               /\ resp' = Response("update_student", "NotFound",
                                   <<student_id, student_data>>, <<>>)
          ELSE \E i \in existing :
               /\ students' = [students EXCEPT ![i] = SetFields(@, student_data)]
               /\ LET updated == With_student_id(students', student_id)
                  IN IF updated = {}
                     THEN resp' = Response("update_student", "Internal",
                                           <<student_id, student_data>>, <<>>)
                     ELSE \E j \in updated :
                          resp' = Response("update_student", "OK",
                                           <<student_id, student_data>>,
                                           <<students'[j]>>)
    /\ UNCHANGED <<users, now, employees, attendance, payroll, budgets, transactions, reqs>>

delete_student(student_id) ==
    /\ LET found == With_student_id(students, student_id)
       IN IF found = {}
          THEN /\ students' = students
               /\ resp' = Response("delete_student", "NotFound", <<student_id>>, <<>>)
          ELSE \E i \in found :
               /\ students' = RemoveAt(students, i)
               /\ resp' = Response("delete_student", "OK", <<student_id>>, <<>>)
    /\ UNCHANGED <<users, now, employees, attendance, payroll, budgets, transactions, reqs>>

\* --------------------------------------------------------------- Attendance
mark_attendance(att) ==
    /\ LET existing == With_person_date(attendance, att.person_id, att.date)
       IN IF existing # {}
          THEN \E i \in existing :
               /\ attendance' = [attendance EXCEPT ![i] = SetFields(@, att)]
               /\ \E j \in With_person_date(attendance', att.person_id, att.date) :
                    resp' = Response("mark_attendance", "OK", <<att>>,
                                     <<attendance'[j]>>)
          ELSE /\ attendance' = InsertOne(attendance, att)
               /\ resp' = Response("mark_attendance", "OK", <<att>>, <<att>>)
    /\ UNCHANGED <<users, now, employees, students, payroll, budgets, transactions, reqs>>

\* ------------------------------------------------------------------ Payroll
EpfEmployeePercent == 12
EpfEmployerPercent == 12

\* Mutant of calculate_epfo: the employee share at 10%.
calculate_epfo_ten_percent(basic_salary) ==
    <<(basic_salary * 10) \div 100, (basic_salary * EpfEmployerPercent) \div 100>>

\* (epf_employee, epf_employer)
calculate_epfo(basic_salary) ==
    <<(basic_salary * EpfEmployeePercent) \div 100,
      (basic_salary * EpfEmployerPercent) \div 100>>

\* sum(allowances.values())
RECURSIVE SumValues(_)
SumValues(d) ==
    IF DOMAIN d = {} THEN 0
    ELSE LET k == CHOOSE x \in DOMAIN d : TRUE
         IN d[k] + SumValues([x \in DOMAIN d \ {k} |-> d[x]])

\* The Payroll document generate_payroll builds from the employee it read.
PayrollOf(employee, payroll_data) ==
    LET basic_salary == employee.basic_salary
        allowances == employee.allowances
        epf == calculate_epfo(basic_salary)
        epf_employee == epf[1]
        epf_employer == epf[2]
        total_allowances == SumValues(allowances)
        gross_salary == basic_salary + total_allowances
        total_deductions == epf_employee
        net_salary == gross_salary - total_deductions
    IN [employee_id |-> payroll_data.employee_id,
        month |-> payroll_data.month,
        year |-> payroll_data.year,
        basic_salary |-> basic_salary,
        allowances |-> allowances,
        deductions |-> [epf |-> epf_employee],
        epf_employee |-> epf_employee,
        epf_employer |-> epf_employer,
        gross_salary |-> gross_salary,
        net_salary |-> net_salary]

\* The documents the existence check of generate_payroll finds.
ExistingPayroll(coll, payroll_data) ==
    With_period(coll, payroll_data.employee_id, payroll_data.month,
                payroll_data.year)

\* Mutant of generate_payroll: the period is checked before the employee.
generate_payroll_period_first(payroll_data) ==
    /\ LET found == With_employee_id(employees, payroll_data.employee_id)
       IN IF ExistingPayroll(payroll, payroll_data) # {}
          THEN /\ payroll' = payroll
               /\ resp' = Response("generate_payroll", "Conflict",
                                   <<payroll_data>>, <<>>)
          ELSE IF found = {}
          THEN /\ payroll' = payroll
               /\ resp' = Response("generate_payroll", "NotFound",
                                   <<payroll_data>>, <<>>)
          ELSE \E i \in found :
               /\ Len(payroll) < MaxPayroll
               /\ payroll' = InsertOne(payroll, PayrollOf(employees[i], payroll_data))
               /\ resp' = Response("generate_payroll", "OK", <<payroll_data>>,
                                   <<PayrollOf(employees[i], payroll_data)>>)
    /\ UNCHANGED <<users, now, employees, students, attendance, budgets, transactions, reqs>>

generate_payroll(payroll_data) ==
    /\ LET found == With_employee_id(employees, payroll_data.employee_id)
       IN IF found = {}
          THEN /\ payroll' = payroll
               /\ resp' = Response("generate_payroll", "NotFound",
                                   <<payroll_data>>, <<>>)
          ELSE IF ExistingPayroll(payroll, payroll_data) # {}
          THEN /\ payroll' = payroll
               /\ resp' = Response("generate_payroll", "Conflict",
                                   <<payroll_data>>, <<>>)
          ELSE \E i \in found :
               /\ Len(payroll) < MaxPayroll
               /\ payroll' = InsertOne(payroll, PayrollOf(employees[i], payroll_data))
               /\ resp' = Response("generate_payroll", "OK", <<payroll_data>>,
                                   <<PayrollOf(employees[i], payroll_data)>>)
    /\ UNCHANGED <<users, now, employees, students, attendance, budgets, transactions, reqs>>

\* ------------------------------------------------------------------ Finance
\* Budget(**budget.model_dump()): a fresh id, spent_amount at its default.
NewBudget(id, budget) ==
    [id |-> id, fiscal_year |-> budget.fiscal_year, category |-> budget.category,
     allocated_amount |-> budget.allocated_amount, spent_amount |-> 0]

create_budget(budget) ==
    /\ Len(budgets) < MaxBudgets
    /\ budgets' = InsertOne(budgets, NewBudget(Len(budgets) + 1, budget))
    /\ resp' = Response("create_budget", "OK", <<budget>>, <<budgets'[Len(budgets')]>>)
    /\ UNCHANGED <<users, now, employees, students, attendance, payroll, transactions, reqs>>

update_budget(budget_id, budget_data) ==
    /\ LET existing == With_id(budgets, budget_id)
       IN IF existing = {}
          THEN /\ budgets' = budgets
               /\ resp' = Response("update_budget", "NotFound",
                                   <<budget_id, budget_data>>, <<>>)
          ELSE \E i \in existing :
               /\ budgets' = [budgets EXCEPT ![i] = SetFields(@, budget_data)]
               /\ \E j \in With_id(budgets', budget_id) :
                    resp' = Response("update_budget", "OK",
                                     <<budget_id, budget_data>>, <<budgets'[j]>>)
    /\ UNCHANGED <<users, now, employees, students, attendance, payroll, transactions, reqs>>

\* {"$inc": {"spent_amount": amount}}
IncSpent(doc, amount) == [doc EXCEPT !.spent_amount = @ + amount]

\* The budget collections update_one(filter by category, $inc) can leave: one
\* matching document is incremented, or nothing changes when none matches.
DebitBudgets(coll, transaction) ==
    IF With_category(coll, transaction.category) = {}
    THEN {coll}
    ELSE { [coll EXCEPT ![i] = IncSpent(@, transaction.amount)] :
           i \in With_category(coll, transaction.category) }

\* Mutant of TouchesBudget: the transaction type is not looked at.
TouchesBudgetAnyType(transaction) == transaction.transaction_type # ""

\* Whether create_transaction goes on to update the budgets.
TouchesBudget(transaction) == transaction.transaction_type = "debit"

create_transaction(transaction) ==
    /\ Len(transactions) < MaxTransactions
    /\ transactions' = InsertOne(transactions, transaction)
    /\ IF TouchesBudget(transaction)
       THEN budgets' \in DebitBudgets(budgets, transaction)
       ELSE budgets' = budgets
    /\ resp' = Response("create_transaction", "OK", <<transaction>>, <<transaction>>)
    /\ UNCHANGED <<users, now, employees, students, attendance, payroll, reqs>>

\* ------------------------------------------------- handlers, await by await
\* A coroutine c \in Clients runs one request; between two awaited storage
\* calls any other coroutine may run.  reqs[c] holds its position (pc), its
\* request body (arg) and the document it read (local).
AtStep(c, pc) == reqs[c].pc = pc

Goto(c, pc, arg, local) ==
    reqs' = [reqs EXCEPT ![c] = [pc |-> pc, arg |-> arg, local |-> local]]

\* mark_attendance: existing = await db.attendance.find_one(...)
mark_find(c, att) ==
    /\ AtStep(c, "idle")
    /\ IF With_person_date(attendance, att.person_id, att.date) # {}
       THEN Goto(c, "mark_update", <<att>>, <<>>)
       ELSE Goto(c, "mark_insert", <<att>>, <<>>)
    /\ UNCHANGED <<users, now, employees, students, attendance, payroll, budgets,
                   transactions, resp>>

\* mark_attendance: await db.attendance.update_one(..., {"$set": update_data})
mark_update(c) ==
    /\ AtStep(c, "mark_update")
    /\ LET att == reqs[c].arg[1]
           found == With_person_date(attendance, att.person_id, att.date)
       IN IF found = {}
          THEN attendance' = attendance
          ELSE \E i \in found :
               attendance' = [attendance EXCEPT ![i] = SetFields(@, att)]
    /\ Goto(c, "mark_refetch", reqs[c].arg, <<>>)
    /\ UNCHANGED <<users, now, employees, students, payroll, budgets, transactions, resp>>

\* mark_attendance: updated = await db.attendance.find_one(...); return updated
mark_refetch(c) ==
    /\ AtStep(c, "mark_refetch")
    /\ LET att == reqs[c].arg[1]
           found == With_person_date(attendance, att.person_id, att.date)
       IN IF found = {}
          THEN resp' = Response("mark_attendance", "Internal", <<att>>, <<>>)
          ELSE \E j \in found :
               resp' = Response("mark_attendance", "OK", <<att>>, <<attendance[j]>>)
    /\ Goto(c, "done", reqs[c].arg, <<>>)
    /\ UNCHANGED <<users, now, employees, students, attendance, payroll, budgets, transactions>>

\* mark_attendance: await db.attendance.insert_one(doc); return att_obj
mark_insert(c) ==
    /\ AtStep(c, "mark_insert")
    /\ attendance' = InsertOne(attendance, reqs[c].arg[1])
    /\ resp' = Response("mark_attendance", "OK", reqs[c].arg, reqs[c].arg)
    /\ Goto(c, "done", reqs[c].arg, <<>>)
    /\ UNCHANGED <<users, now, employees, students, payroll, budgets, transactions>>

\* generate_payroll: employee = await db.employees.find_one(...)
generate_find_employee(c, payroll_data) ==
    /\ AtStep(c, "idle")
    /\ LET found == With_employee_id(employees, payroll_data.employee_id)
       IN IF found = {}
          THEN /\ resp' = Response("generate_payroll", "NotFound",
                                   <<payroll_data>>, <<>>)
               /\ Goto(c, "done", <<payroll_data>>, <<>>)
          ELSE \E i \in found :
               /\ resp' = resp
               /\ Goto(c, "generate_check", <<payroll_data>>, <<employees[i]>>)
    /\ UNCHANGED <<users, now, employees, students, attendance, payroll, budgets, transactions>>

\* generate_payroll: existing = await db.payroll.find_one(...)
generate_check(c) ==
    /\ AtStep(c, "generate_check")
    /\ IF ExistingPayroll(payroll, reqs[c].arg[1]) # {}
       THEN /\ resp' = Response("generate_payroll", "Conflict", reqs[c].arg, <<>>)
            /\ Goto(c, "done", reqs[c].arg, <<>>)
       ELSE /\ resp' = resp
            /\ Goto(c, "generate_insert", reqs[c].arg, reqs[c].local)
    /\ UNCHANGED <<users, now, employees, students, attendance, payroll, budgets, transactions>>

\* generate_payroll: await db.payroll.insert_one(doc); return payroll
generate_insert(c) ==
    /\ AtStep(c, "generate_insert")
    /\ payroll' = InsertOne(payroll, PayrollOf(reqs[c].local[1], reqs[c].arg[1]))
    /\ resp' = Response("generate_payroll", "OK", reqs[c].arg,
                        <<PayrollOf(reqs[c].local[1], reqs[c].arg[1])>>)
    /\ Goto(c, "done", reqs[c].arg, <<>>)
    /\ UNCHANGED <<users, now, employees, students, attendance, budgets, transactions>>

\* create_transaction: await db.transactions.insert_one(doc); a debit goes on
\* to the budget update, any other type returns the transaction.
transaction_insert(c, transaction) ==
    /\ AtStep(c, "idle")
    /\ Len(transactions) < MaxTransactions
    /\ transactions' = InsertOne(transactions, transaction)
    /\ IF TouchesBudget(transaction)
       THEN /\ Goto(c, "transaction_inc", <<transaction>>, <<>>)
            /\ resp' = resp
       ELSE /\ Goto(c, "idle", <<>>, <<>>)
            /\ resp' = Response("create_transaction", "OK", <<transaction>>,
                                <<transaction>>)
    /\ UNCHANGED <<users, now, employees, students, attendance, payroll, budgets>>

\* create_transaction: await db.budgets.update_one({"category": ...},
\* {"$inc": ...}), one storage step; return trans_obj
transaction_inc(c) ==
    /\ AtStep(c, "transaction_inc")
    /\ budgets' \in DebitBudgets(budgets, reqs[c].arg[1])
    /\ resp' = Response("create_transaction", "OK", reqs[c].arg, reqs[c].arg)
    /\ Goto(c, "idle", <<>>, <<>>)
    /\ UNCHANGED <<users, now, employees, students, attendance, payroll,
                   transactions>>

\* update_budget: existing = await db.budgets.find_one({"id": budget_id})
budget_find(c, budget_id, budget_data) ==
    /\ AtStep(c, "idle")
    /\ LET existing == With_id(budgets, budget_id)
       IN IF existing = {}
          THEN /\ Goto(c, "idle", <<>>, <<>>)
               /\ resp' = Response("update_budget", "NotFound",
                                   <<budget_id, budget_data>>, <<>>)
          ELSE \E i \in existing :
               /\ Goto(c, "budget_set", <<budget_id, budget_data>>, <<budgets[i]>>)
               /\ resp' = resp
    /\ UNCHANGED <<users, now, employees, students, attendance, payroll, budgets,
                   transactions>>

\* Mutant of budget_set: the document read by find_one is written back with
\* the submitted fields changed.
budget_set_replacing(c) ==
    /\ AtStep(c, "budget_set")
    /\ LET found == With_id(budgets, reqs[c].arg[1])
       IN IF found = {}
          THEN budgets' = budgets
          ELSE \E i \in found :
               budgets' = [budgets EXCEPT
                              ![i] = SetFields(reqs[c].local[1], reqs[c].arg[2])]
    /\ Goto(c, "budget_refetch", reqs[c].arg, <<>>)
    /\ UNCHANGED <<users, now, employees, students, attendance, payroll,
                   transactions, resp>>

\* update_budget: await db.budgets.update_one({"id": budget_id},
\* {"$set": update_data}), one storage step on the stored document
budget_set(c) ==
    /\ AtStep(c, "budget_set")
    /\ LET found == With_id(budgets, reqs[c].arg[1])
       IN IF found = {}
          THEN budgets' = budgets
          ELSE \E i \in found :
               budgets' = [budgets EXCEPT ![i] = SetFields(@, reqs[c].arg[2])]
    /\ Goto(c, "budget_refetch", reqs[c].arg, <<>>)
    /\ UNCHANGED <<users, now, employees, students, attendance, payroll,
                   transactions, resp>>

\* update_budget: updated = await db.budgets.find_one(...); return updated
budget_refetch(c) ==
    /\ AtStep(c, "budget_refetch")
    /\ LET found == With_id(budgets, reqs[c].arg[1])
       IN IF found = {}
          THEN resp' = Response("update_budget", "OK", reqs[c].arg, <<>>)
          ELSE \E i \in found :
               resp' = Response("update_budget", "OK", reqs[c].arg, <<budgets[i]>>)
    /\ Goto(c, "idle", <<>>, <<>>)
    /\ UNCHANGED <<users, now, employees, students, attendance, payroll, budgets,
                   transactions>>

\* --------------------------------------------------------------------- Auth
ACCESS_TOKEN_EXPIRE_MINUTES == 1440

\* Positions of the documents that satisfy {"email": e}.
With_email(coll, e) == {i \in 1..Len(coll) : coll[i].email = e}

\* bcrypt.hashpw(password, salt): one digest per password and salt, none of
\* them a password.
BcryptDigest ==
    [admin123 |-> [saltA |-> "$2b$12$saltA.Qm1", saltB |-> "$2b$12$saltB.Xk7"],
     hr123 |-> [saltA |-> "$2b$12$saltA.c9T", saltB |-> "$2b$12$saltB.Lw4"]]

\* hash_password, with the salt gensalt() drew.
hash_password(password, salt) == BcryptDigest[password][salt]

\* bcrypt.checkpw: the digest of the password under the salt of hashed is hashed.
verify_password(password, hashed) ==
    \E salt \in Salts : BcryptDigest[password][salt] = hashed

\* create_access_token at instant at: the claims of the signed token.
create_access_token(data, at) ==
    [sub |-> data.sub, role |-> data.role, exp |-> at + ACCESS_TOKEN_EXPIRE_MINUTES]

\* A token that carries no "sub" claim has this subject.
NoSubject == 0

\* What a client can put in the Authorization header: nothing, a string that
\* is no token of this server, or a token signed with this server's key.
Missing == [kind |-> "missing"]
Malformed == [kind |-> "malformed"]
Bearer(token) == [kind |-> "bearer", token |-> token]

SignedTokens ==
    [sub : 0..(Cardinality(Emails) + 1), role : Roles,
     exp : {i + ACCESS_TOKEN_EXPIRE_MINUTES : i \in Instants}]

Credentials == {Missing, Malformed} \cup {Bearer(t) : t \in SignedTokens}

\* Mutant of jwt_decode: the expiry is not looked at.
jwt_decode_any_time(token, at) == {"ok"}

\* jwt.decode of a signed token at instant at: the claims, or
\* ExpiredSignatureError once exp has passed (either at the very instant exp).
jwt_decode(token, at) ==
    IF at < token.exp THEN {"ok"}
    ELSE IF at > token.exp THEN {"expired"}
    ELSE {"ok", "expired"}

\* Mutant of PublicView: the document is handed on as stored.
StoredView(doc) == doc

\* The user document without its password (del user['password'], or the
\* projection {"password": 0}).
PublicView(doc) == [f \in DOMAIN doc \ {"password"} |-> doc[f]]

AuthResult(status, user) == [status |-> status, user |-> user]

\* The outcomes of the dependency chain security -> get_current_user for the
\* credentials cred: the user view on success, else the error raised.  With
\* no credentials HTTPBearer itself rejects the request, with 401 or 403
\* according to the framework version.
get_current_user(cred) ==
    IF cred.kind = "missing"
    THEN {AuthResult("Unauthorized", <<>>), AuthResult("Forbidden", <<>>)}
    ELSE IF cred.kind = "malformed"
    THEN {AuthResult("Unauthorized", <<>>)}
    ELSE { IF outcome = "expired" THEN AuthResult("Unauthorized", <<>>)
           ELSE IF cred.token.sub = NoSubject THEN AuthResult("Unauthorized", <<>>)
           ELSE IF With_id(users, cred.token.sub) = {}
                THEN AuthResult("Unauthorized", <<>>)
                ELSE AuthResult("OK", <<PublicView(users[i])>>) :
           outcome \in jwt_decode(cred.token, now),
           i \in (IF With_id(users, cred.token.sub) = {}
                  THEN {0} ELSE With_id(users, cred.token.sub)) }

\* User(**user_dict): a fresh id; the password field holds the hash.
NewUser(id, user_data, hashed_pw) ==
    [id |-> id, email |-> user_data.email, password |-> hashed_pw,
     name |-> user_data.name, role |-> user_data.role]

TokenResponse(token, user) ==
    [access_token |-> token, token_type |-> "bearer", user |-> user]

\* Mutant of register: the email is not looked up first.
register_unchecked(user_data, salt) ==
    /\ Len(users) < Cardinality(Emails) + 1
    /\ LET user == NewUser(Len(users) + 1, user_data,
                           hash_password(user_data.password, salt))
       IN /\ users' = InsertOne(users, user)
          /\ resp' = Response("register", "OK", <<user_data>>,
                <<TokenResponse(create_access_token(
                     [sub |-> user.id, role |-> user.role], now),
                   PublicView(user))>>)
    /\ UNCHANGED <<employees, students, attendance, payroll, budgets,
                   transactions, reqs, now>>

register(user_data, salt) ==
    /\ IF With_email(users, user_data.email) # {}
       THEN /\ users' = users
            /\ resp' = Response("register", "Conflict", <<user_data>>, <<>>)
       ELSE LET user == NewUser(Len(users) + 1, user_data,
                                hash_password(user_data.password, salt))
            IN /\ users' = InsertOne(users, user)
               /\ resp' = Response("register", "OK", <<user_data>>,
                     <<TokenResponse(create_access_token(
                          [sub |-> user.id, role |-> user.role], now),
                        PublicView(user))>>)
    /\ UNCHANGED <<employees, students, attendance, payroll, budgets,
                   transactions, reqs, now>>

login(credentials) ==
    /\ LET found == With_email(users, credentials.email)
       IN IF found = {}
          THEN resp' = Response("login", "Unauthorized", <<credentials>>, <<>>)
          ELSE \E i \in found :
               IF ~verify_password(credentials.password, users[i].password)
               THEN resp' = Response("login", "Unauthorized", <<credentials>>, <<>>)
               ELSE resp' = Response("login", "OK", <<credentials>>,
                       <<TokenResponse(create_access_token(
                            [sub |-> users[i].id, role |-> users[i].role], now),
                          PublicView(users[i]))>>)
    /\ UNCHANGED <<employees, students, attendance, payroll, budgets,
                   transactions, reqs, users, now>>

get_me(cred) ==
    /\ \E current_user \in get_current_user(cred) :
          resp' = Response("get_me", current_user.status, <<cred>>,
                           current_user.user)
    /\ UNCHANGED <<employees, students, attendance, payroll, budgets,
                   transactions, reqs, users, now>>

\* Time passes between two requests; no response is outstanding then.
tick(at) ==
    /\ at > now
    /\ now' = at
    /\ resp' = NoResponse
    /\ UNCHANGED <<employees, students, attendance, payroll, budgets,
                   transactions, reqs, users>>

\* ------------------------------------------------------- the gated routes
\* get_employees and get_transactions (no filter): the stored documents.
get_employees ==
    /\ resp' = Response("get_employees", "OK", <<>>, <<employees>>)
    /\ UNCHANGED <<employees, students, attendance, payroll, budgets,
                   transactions, reqs, users, now>>

get_transactions ==
    /\ resp' = Response("get_transactions", "OK", <<>>, <<transactions>>)
    /\ UNCHANGED <<employees, students, attendance, payroll, budgets,
                   transactions, reqs, users, now>>

\* The client puts cred in the Authorization header of the requests it sends
\* from now on.
present(cred) ==
    /\ reqs' = [reqs EXCEPT ![1] = [pc |-> "idle", arg |-> <<cred>>, local |-> <<>>]]
    /\ resp' = NoResponse
    /\ UNCHANGED <<employees, students, attendance, payroll, budgets,
                   transactions, users, now>>

Presented == IF reqs[1].arg = <<>> THEN Missing ELSE reqs[1].arg[1]

\* Mutant of Depends: the handler runs whatever get_current_user answered.
DependsUnchecked(op, Handler) == Handler

\* current_user: dict = Depends(get_current_user): the route's handler runs
\* once the dependency returned a user; when it raised, its error is the
\* response and the handler does not run.
Depends(op, Handler) ==
    \E current_user \in get_current_user(Presented) :
       IF current_user.status = "OK"
       THEN Handler
       ELSE /\ resp' = Response(op, current_user.status, <<>>, <<>>)
            /\ UNCHANGED <<employees, students, attendance, payroll, budgets,
                           transactions, reqs, users, now>>

\* ------------------------------------------------------------ specifications
Init ==
    /\ employees = <<>>
    /\ students = <<>>
    /\ attendance = <<>>
    /\ payroll = <<>>
    /\ budgets = <<>>
    /\ transactions = <<>>
    /\ resp = NoResponse
    /\ reqs = [c \in Clients |-> IdleRequest]
    /\ users = <<>>
    /\ now = 0

CreateEmployee == \E e \in EmployeeCreate : create_employee(e)
UpdateEmployee == \E id \in EmployeeIds, e \in EmployeeCreate : update_employee(id, e)
DeleteEmployee == \E id \in EmployeeIds : delete_employee(id)
CreateStudent == \E s \in StudentCreate : create_student(s)
UpdateStudent == \E id \in StudentIds, s \in StudentCreate : update_student(id, s)
DeleteStudent == \E id \in StudentIds : delete_student(id)

\* Directory service, one request at a time.
NextDirectory ==
    \/ CreateEmployee
    \/ UpdateEmployee
    \/ DeleteEmployee
    \/ CreateStudent
    \/ UpdateStudent
    \/ DeleteStudent

SpecDirectory == Init /\ [][NextDirectory]_vars

\* Attendance service, one request at a time.
MarkAttendance == \E a \in AttendanceCreate : mark_attendance(a)

NextAttendance == MarkAttendance

SpecAttendance == Init /\ [][NextAttendance]_vars

\* Payroll service over the employee records, one request at a time.
GeneratePayroll == \E p \in PayrollCreate : generate_payroll(p)

NextPayroll ==
    \/ CreateEmployee
    \/ UpdateEmployee
    \/ DeleteEmployee
    \/ GeneratePayroll

SpecPayroll == Init /\ [][NextPayroll]_vars

\* Finance service, one request at a time.
CreateBudget == \E b \in BudgetCreate : create_budget(b)
UpdateBudget == \E id \in 1..MaxBudgets, b \in BudgetCreate : update_budget(id, b)
CreateTransaction == \E t \in TransactionCreate : create_transaction(t)

NextFinance ==
    \/ CreateBudget
    \/ UpdateBudget
    \/ CreateTransaction

SpecFinance == Init /\ [][NextFinance]_vars

\* Attendance service, NumClients mark requests running concurrently.
MarkFind == \E c \in Clients, a \in AttendanceCreate : mark_find(c, a)
MarkUpdate == \E c \in Clients : mark_update(c)
MarkRefetch == \E c \in Clients : mark_refetch(c)
MarkInsert == \E c \in Clients : mark_insert(c)

NextAttendanceConcurrent ==
    \/ MarkFind
    \/ MarkUpdate
    \/ MarkRefetch
    \/ MarkInsert

SpecAttendanceConcurrent == Init /\ [][NextAttendanceConcurrent]_vars

\* Payroll service, NumClients generate requests running concurrently over
\* employees created by (whole) create_employee requests.
GenerateFindEmployee ==
    \E c \in Clients, p \in PayrollCreate : generate_find_employee(c, p)
GenerateCheck == \E c \in Clients : generate_check(c)
GenerateInsert == \E c \in Clients : generate_insert(c)

NextPayrollConcurrent ==
    \/ CreateEmployee
    \/ GenerateFindEmployee
    \/ GenerateCheck
    \/ GenerateInsert

SpecPayrollConcurrent == Init /\ [][NextPayrollConcurrent]_vars

\* Auth service, one request at a time, with time passing between requests.
Register == \E u \in UserCreate, salt \in Salts : register(u, salt)
Login == \E c \in UserLogin : login(c)
GetMe == \E cred \in Credentials : get_me(cred)
Tick == \E at \in Instants : tick(at)

NextAuth ==
    \/ Register
    \/ Login
    \/ GetMe
    \/ Tick

SpecAuth == Init /\ [][NextAuth]_vars

\* Every route behind its get_current_user dependency, one request at a time;
\* register and login are the two routes without it.
GatedCredentials ==
    {Missing, Malformed}
    \cup {Bearer(t) : t \in {x \in SignedTokens :
                                /\ x.sub \in {NoSubject, 1}
                                /\ x.role = "admin"
                                /\ x.exp = ACCESS_TOKEN_EXPIRE_MINUTES}}

RegisterAdmin ==
    \E u \in {x \in UserCreate : x.role = "admin" /\ x.password = "admin123"} :
       register(u, "saltA")
LoginAdmin == \E c \in {x \in UserLogin : x.password = "admin123"} : login(c)
TickGated == \E at \in {1440, 1441} : tick(at)
Present == \E cred \in GatedCredentials : present(cred)
GatedMe == get_me(Presented)
GatedGetEmployees == Depends("get_employees", get_employees)
GatedGetTransactions == Depends("get_transactions", get_transactions)
GatedCreateEmployee ==
    \E e \in {x \in EmployeeCreate : x.name = "Asha" /\ x.employee_id = "FAC0001"} :
       Depends("create_employee", create_employee(e))
GatedDeleteEmployee == Depends("delete_employee", delete_employee("FAC0001"))
GatedCreateStudent ==
    \E st \in {x \in StudentCreate : x.name = "Diya" /\ x.student_id = "STU0001"} :
       Depends("create_student", create_student(st))
GatedDeleteStudent == Depends("delete_student", delete_student("STU0001"))
GatedMarkAttendance ==
    \E a \in {x \in AttendanceCreate :
                 /\ x.person_id = "FAC0001" /\ x.date = "2025-03-03"
                 /\ x.person_type = "employee"} :
       Depends("mark_attendance", mark_attendance(a))
GatedGeneratePayroll ==
    \E pd \in {x \in PayrollCreate : x.employee_id = "FAC0001" /\ x.month = "March"} :
       Depends("generate_payroll", generate_payroll(pd))
GatedCreateBudget ==
    \E b \in {x \in BudgetCreate : x.category = "Infrastructure"} :
       Depends("create_budget", create_budget(b))
GatedUpdateBudget ==
    \E b \in {x \in BudgetCreate : x.category = "Salaries"} :
       Depends("update_budget", update_budget(1, b))
GatedCreateTransaction ==
    \E t \in {x \in TransactionCreate :
                 /\ x.category = "Infrastructure" /\ x.amount = 1000
                 /\ x.transaction_type = "debit"} :
       Depends("create_transaction", create_transaction(t))

NextGated ==
    \/ RegisterAdmin
    \/ LoginAdmin
    \/ TickGated
    \/ Present
    \/ GatedMe
    \/ GatedGetEmployees
    \/ GatedGetTransactions
    \/ GatedCreateEmployee
    \/ GatedDeleteEmployee
    \/ GatedCreateStudent
    \/ GatedDeleteStudent
    \/ GatedMarkAttendance
    \/ GatedGeneratePayroll
    \/ GatedCreateBudget
    \/ GatedUpdateBudget
    \/ GatedCreateTransaction

SpecGated == Init /\ [][NextGated]_vars

\* The directory with the records that reference it: people are created and
\* deleted while attendance is marked and payroll generated for their ids.
CreateReferencedEmployee ==
    \E e \in {x \in EmployeeCreate : x.name = "Asha"} : create_employee(e)
RenameReferencedEmployee ==
    \E id \in EmployeeIds, e \in {x \in EmployeeCreate : x.name = "Asha"} :
       update_employee(id, e)
CreateReferencedStudent ==
    \E st \in {x \in StudentCreate : x.name = "Diya"} : create_student(st)
MarkReferencing ==
    \E a \in {x \in AttendanceCreate :
                 /\ x.date = "2025-03-03"
                 /\ x.status = (IF x.person_id = "FAC0001" THEN "present" ELSE "leave")} :
       mark_attendance(a)
GenerateReferencing ==
    \E pd \in {x \in PayrollCreate : x.month = "March"} : generate_payroll(pd)

NextReferences ==
    \/ CreateReferencedEmployee
    \/ RenameReferencedEmployee
    \/ CreateReferencedStudent
    \/ DeleteEmployee
    \/ DeleteStudent
    \/ MarkReferencing
    \/ GenerateReferencing

SpecReferences == Init /\ [][NextReferences]_vars

\* Finance service, NumClients requests running concurrently: budgets are
\* created, one per category, before the first transaction is submitted;
\* afterwards transactions are created and budgets updated, the updates
\* keeping the category of the budget they address.
BudgetUpdates ==
    [fiscal_year : {"2025-26"}, category : Categories, allocated_amount : {650000}]

CreateBudgetFirst ==
    \E b \in BudgetCreate :
       /\ transactions = <<>>
       /\ \A c \in Clients : AtStep(c, "idle")
       /\ With_category(budgets, b.category) = {}
       /\ create_budget(b)
TransactionInsert ==
    \E c \in Clients,
       t \in {x \in TransactionCreate :
                 /\ x.amount = 1000
                 /\ x.transaction_type \in {"debit", "credit"}
                 /\ x.category = "Infrastructure" \/ x.transaction_type = "debit"} :
       transaction_insert(c, t)
TransactionInc == \E c \in Clients : transaction_inc(c)
BudgetFind ==
    \E c \in Clients, id \in 1..(Cardinality(Categories) + 1), b \in BudgetUpdates :
       /\ \A i \in With_id(budgets, id) : budgets[i].category = b.category
       /\ budget_find(c, id, b)
BudgetSet == \E c \in Clients : budget_set(c)
BudgetRefetch == \E c \in Clients : budget_refetch(c)

NextFinanceConcurrent ==
    \/ CreateBudgetFirst
    \/ TransactionInsert
    \/ TransactionInc
    \/ BudgetFind
    \/ BudgetSet
    \/ BudgetRefetch

SpecFinanceConcurrent == Init /\ [][NextFinanceConcurrent]_vars

\* ------------------------------------------------------------------ claims
NoDuplicates(keys) == \A i, j \in 1..Len(keys) : keys[i] = keys[j] => i = j

\* C1: a debit createTransaction of amount a and category c adds exactly a to
\* the spent_amount of EVERY budget whose category is c, and to no other.
C1_DebitIncrementsEveryMatch ==
    [][(resp'.op = "create_transaction"
        /\ resp'.arg[1].transaction_type = "debit")
       => /\ Len(budgets') = Len(budgets)
          /\ \A i \in 1..Len(budgets) :
               budgets'[i].spent_amount =
                  budgets[i].spent_amount
                  + (IF budgets[i].category = resp'.arg[1].category
                     THEN resp'.arg[1].amount ELSE 0)]_vars

\* C2: after a mark request, run alone, exactly one attendance record is
\* stored for its (person_id, date), every submitted field of that record is
\* the request's, and the request returns it; so after a second mark for the
\* pair the one record is the second call's.
C2_MarkLeavesOneRecord ==
    resp.op = "mark_attendance" =>
       LET att == resp.arg[1]
           stored == {i \in 1..Len(attendance) :
                         /\ attendance[i].person_id = att.person_id
                         /\ attendance[i].date = att.date}
       IN /\ Cardinality(stored) = 1
          /\ \A i \in stored :
               /\ attendance[i].person_type = att.person_type
               /\ attendance[i].status = att.status
               /\ attendance[i].remarks = att.remarks
               /\ attendance[i].marked_by = att.marked_by
               /\ resp.body = <<attendance[i]>>
          /\ resp.status = "OK"

\* C2 witness: the record inserted first was marked again, with another
\* status, after a later record had been inserted.
C2_Remarked ==
    /\ Len(attendance) = 2
    /\ resp.op = "mark_attendance"
    /\ resp.arg[1].person_id = attendance[1].person_id
    /\ resp.arg[1].date = attendance[1].date
    /\ attendance[1].status = "half_day"
    /\ attendance[1].remarks = "sick"
    /\ attendance[2].status = "present"

\* C3: generate fails with NotFound when no employee has the employee_id
\* (even when a payroll record of the period is stored), fails with Conflict
\* when the employee exists and a payroll record of the period is stored, and
\* leaves the payroll collection unchanged in both cases.
C3_GenerateFailures ==
    [][resp'.op = "generate_payroll" =>
       LET pd == resp'.arg[1]
           employed == \E i \in 1..Len(employees) :
                          employees[i].employee_id = pd.employee_id
           stored == \E i \in 1..Len(payroll) :
                        /\ payroll[i].employee_id = pd.employee_id
                        /\ payroll[i].month = pd.month
                        /\ payroll[i].year = pd.year
       IN /\ ~employed => (resp'.status = "NotFound" /\ payroll' = payroll)
          /\ (employed /\ stored) =>
                (resp'.status = "Conflict" /\ payroll' = payroll)
          /\ (employed /\ ~stored) =>
                (resp'.status = "OK" /\ Len(payroll') = Len(payroll) + 1)]_vars

\* C3 witness: NotFound for a period whose payroll record is stored (the
\* employee was deleted after the record was generated).
C3_NotFoundWithStoredPayroll ==
    /\ resp.op = "generate_payroll"
    /\ resp.status = "NotFound"
    /\ \E i \in 1..Len(payroll) :
          /\ payroll[i].employee_id = resp.arg[1].employee_id
          /\ payroll[i].month = resp.arg[1].month
          /\ payroll[i].year = resp.arg[1].year

\* The total of the allowances of the payloads (hra and da are their names).
AllowanceTotal(a) ==
    (IF "hra" \in DOMAIN a THEN a["hra"] ELSE 0)
    + (IF "da" \in DOMAIN a THEN a["da"] ELSE 0)

\* C4: a successful generate stores (and returns) a record with the basic
\* salary and allowances of a stored employee of that employee_id, both EPF
\* shares at 12% of the basic salary, gross = basic + allowances and
\* net = gross - employee share; 50000 with 10000 and 7500 gives 6000, 6000,
\* 67500, 61500.
C4_PayrollFigures ==
    [][(resp'.op = "generate_payroll" /\ resp'.status = "OK") =>
       LET pd == resp'.arg[1]
           r == payroll'[Len(payroll')]
       IN /\ Len(payroll') = Len(payroll) + 1
          /\ resp'.body = <<r>>
          /\ r.employee_id = pd.employee_id
          /\ r.month = pd.month
          /\ r.year = pd.year
          /\ \E i \in 1..Len(employees) :
                /\ employees[i].employee_id = pd.employee_id
                /\ r.basic_salary = employees[i].basic_salary
                /\ r.allowances = employees[i].allowances
          /\ 100 * r.epf_employee = 12 * r.basic_salary
          /\ 100 * r.epf_employer = 12 * r.basic_salary
          /\ r.gross_salary = r.basic_salary + AllowanceTotal(r.allowances)
          /\ r.net_salary = r.gross_salary - r.epf_employee
          /\ (r.basic_salary = 50000
              /\ r.allowances = [hra |-> 10000, da |-> 7500])
             => /\ r.epf_employee = 6000
                /\ r.epf_employer = 6000
                /\ r.gross_salary = 67500
                /\ r.net_salary = 61500]_vars

\* C4 witness: the payroll of the 50000 / 10000 / 7500 employee was generated.
C4_Generated ==
    /\ resp.op = "generate_payroll"
    /\ resp.status = "OK"
    /\ Len(payroll) > 0
    /\ payroll[Len(payroll)].basic_salary = 50000
    /\ payroll[Len(payroll)].net_salary = 61500

\* C5: no two employees share an employee_id and no two students share a
\* student_id, after any sequence of Directory requests run one at a time.
C5_NaturalIdsUnique ==
    /\ NoDuplicates([i \in 1..Len(employees) |-> employees[i].employee_id])
    /\ NoDuplicates([i \in 1..Len(students) |-> students[i].student_id])

\* C6: an update of an existing employee or student leaves the natural id of
\* every record as it was, and returns the post-update record.
C6_UpdateKeepsNaturalId ==
    [][/\ (resp'.op = "update_employee" /\ resp'.status # "NotFound") =>
            /\ Len(employees') = Len(employees)
            /\ \A i \in 1..Len(employees) :
                  employees'[i].employee_id = employees[i].employee_id
            /\ resp'.status = "OK"
       /\ (resp'.op = "update_student" /\ resp'.status # "NotFound") =>
            /\ Len(students') = Len(students)
            /\ \A i \in 1..Len(students) :
                  students'[i].student_id = students[i].student_id
            /\ resp'.status = "OK"]_vars

\* C7: the attendance collection holds at most one record per
\* (person_id, date), under every interleaving of concurrent mark requests.
C7_OneAttendancePerPersonDate ==
    NoDuplicates([i \in 1..Len(attendance) |->
                    <<attendance[i].person_id, attendance[i].date>>])

\* C8: the payroll collection holds at most one record per
\* (employee_id, month, year), under every interleaving of concurrent
\* generate requests.
C8_OnePayrollPerPeriod ==
    NoDuplicates([i \in 1..Len(payroll) |->
                    <<payroll[i].employee_id, payroll[i].month, payroll[i].year>>])

\* C9: a budget has spent_amount 0 when created, and no Finance request
\* lowers the spent_amount of a budget.
C9_SpentNeverDecreases ==
    [][/\ Len(budgets') >= Len(budgets)
       /\ \A i \in 1..Len(budgets') :
             IF i <= Len(budgets)
             THEN budgets'[i].spent_amount >= budgets[i].spent_amount
             ELSE budgets'[i].spent_amount = 0]_vars

\* C10: the spent_amount of a budget changes only in a createTransaction of
\* type "debit" whose category is the budget's; updateBudget, credits, other
\* types and debits of another category leave it as it was.
C10_OnlyMatchingDebitMovesSpent ==
    [][/\ Len(budgets') >= Len(budgets)
       /\ \A i \in 1..Len(budgets) :
             budgets'[i].spent_amount # budgets[i].spent_amount =>
                /\ resp'.op = "create_transaction"
                /\ resp'.arg[1].transaction_type = "debit"
                /\ resp'.arg[1].category = budgets[i].category]_vars

\* C10 witness: updateBudget moved a budget with money spent to another
\* category and its spent_amount is still there.
C10_UpdatedSpentBudget ==
    /\ resp.op = "update_budget"
    /\ resp.status = "OK"
    /\ resp.arg[2].category = "Salaries"
    /\ \E i \in 1..Len(budgets) :
          /\ budgets[i].id = resp.arg[1]
          /\ budgets[i].category = "Salaries"
          /\ budgets[i].spent_amount = 1000
    /\ \A k \in 1..Len(transactions) :
          transactions[k].category = "Infrastructure"

\* C11: a stored payroll record is never changed or removed by a later
\* request: an update or a delete of the employee, or another generate, leaves
\* every stored record (its basic_salary, allowances, EPF shares, gross and
\* net) as it was.
C11_PayrollRecordsFrozen ==
    [][/\ Len(payroll') >= Len(payroll)
       /\ \A i \in 1..Len(payroll) : payroll'[i] = payroll[i]]_vars

\* C11 witness: the employee's compensation was updated after the payroll of
\* the 50000 salary was generated, and the record still shows 50000 / 61500.
C11_UpdatedAfterPayroll ==
    /\ resp.op = "update_employee"
    /\ resp.status = "OK"
    /\ resp.body[1].basic_salary = 20000
    /\ \E i \in 1..Len(payroll) :
          /\ payroll[i].employee_id = resp.body[1].employee_id
          /\ payroll[i].basic_salary = 50000
          /\ payroll[i].net_salary = 61500
    /\ \A k \in 1..Len(employees) : employees[k].basic_salary = 20000

\* C12: register with an email that is already stored fails with Conflict and
\* leaves the users collection unchanged, so that after any sequence of
\* register calls, one at a time, no two stored users share an email.
C12_RegisterEmailUnique ==
    [][/\ (resp'.op = "register"
           /\ \E i \in 1..Len(users) : users[i].email = resp'.arg[1].email)
          => (resp'.status = "Conflict" /\ users' = users)
       /\ NoDuplicates([i \in 1..Len(users') |-> users'[i].email])]_vars

\* C12 witness: a second register of a stored email, with another password,
\* was refused.
C12_SecondRegisterRefused ==
    /\ resp.op = "register"
    /\ resp.status = "Conflict"
    /\ \E i \in 1..Len(users) :
          /\ users[i].email = resp.arg[1].email
          /\ ~verify_password(resp.arg[1].password, users[i].password)

\* The ids of the stored users.
UserIds == {users[i].id : i \in 1..Len(users)}

\* C13: login and register issue a token of a stored user that expires 1440
\* minutes after its issuance; verify accepts a token of a stored user at
\* every instant before its expiry and answers Unauthorized at every instant
\* after it.
C13_TokenValidityWindow ==
    [][/\ (resp'.op \in {"login", "register"} /\ resp'.status = "OK") =>
            /\ resp'.body[1].access_token.exp = now + 1440
            /\ \E i \in 1..Len(users') :
                  /\ users'[i].id = resp'.body[1].access_token.sub
                  /\ users'[i].email = resp'.arg[1].email
       /\ (/\ resp'.op = "get_me"
           /\ resp'.arg[1].kind = "bearer"
           /\ resp'.arg[1].token.sub \in UserIds) =>
            /\ now < resp'.arg[1].token.exp => resp'.status = "OK"
            /\ now > resp'.arg[1].token.exp => resp'.status = "Unauthorized"]_vars

\* C13 witness: the token issued at instant 0 to the first user was refused
\* after minute 1440.
C13_ExpiredTokenRefused ==
    /\ resp.op = "get_me"
    /\ resp.status = "Unauthorized"
    /\ resp.arg[1].kind = "bearer"
    /\ resp.arg[1].token.sub \in UserIds
    /\ resp.arg[1].token.exp = 1440
    /\ now = 1441

\* The digests the password field of a stored user can hold.
Digests == {BcryptDigest[p][salt] : p \in Passwords, salt \in Salts}

\* The user view a response carries, if any.
UserViews ==
    IF resp.body = <<>> THEN {}
    ELSE IF resp.op = "get_me" THEN {resp.body[1]}
    ELSE IF resp.op \in {"login", "register"} THEN {resp.body[1].user}
    ELSE {}

\* C15: the user view of a response of register, login and /auth/me (the
\* view verify hands on) has no password field and none of its fields holds a
\* password or a digest, and the password stored for a user is never the
\* submitted plaintext.
C15_PasswordNeverExposed ==
    /\ \A view \in UserViews :
          /\ "password" \notin DOMAIN view
          /\ \A f \in DOMAIN view \ {"id"} :
                view[f] \notin Passwords \cup Digests
    /\ \A i \in 1..Len(users) : users[i].password \notin Passwords
    /\ (resp.op = "register" /\ resp.status = "OK") =>
          users[Len(users)].password # resp.arg[1].password

\* C15 witness: a login succeeded and returned the user view.
C15_LoginReturnedView ==
    /\ resp.op = "login"
    /\ resp.status = "OK"
    /\ resp.body[1].user.email = resp.arg[1].email
    /\ \E i \in 1..Len(users) :
          /\ users[i].email = resp.arg[1].email
          /\ users[i].password \in Digests

\* The routes that declare the get_current_user dependency.
GatedOps ==
    {"get_me", "get_employees", "get_transactions", "create_employee",
     "delete_employee", "create_student", "update_student", "delete_student",
     "mark_attendance", "generate_payroll", "create_budget", "update_budget",
     "create_transaction"}

\* The request carries no token verify can accept: none at all, a malformed
\* one, one whose expiry has passed, or one whose subject is no stored user.
Unverifiable(cred) ==
    \/ cred.kind \in {"missing", "malformed"}
    \/ /\ cred.kind = "bearer"
       /\ \/ now > cred.token.exp
          \/ cred.token.sub \notin UserIds

\* The step returned no read result and changed no collection.
NoEffect ==
    /\ resp'.body = <<>>
    /\ UNCHANGED <<employees, students, attendance, payroll, budgets,
                   transactions, users>>

\* C14 as stated: a request to a route other than register and login that
\* carries a missing, malformed, expired or unresolvable-subject token is
\* answered Unauthorized, returns no read result and changes no collection.
C14_UnverifiedGetsUnauthorized ==
    [][(resp'.op \in GatedOps /\ Unverifiable(Presented)) =>
          (resp'.status = "Unauthorized" /\ NoEffect)]_vars

\* C14 amended: such a request returns no read result and changes no
\* collection; it is answered Unauthorized when it carries a malformed, expired
\* or unresolvable-subject token, and Unauthorized or Forbidden when it carries
\* no bearer credentials at all.
C14_UnverifiedHasNoEffect ==
    [][(resp'.op \in GatedOps /\ Unverifiable(Presented)) =>
          /\ NoEffect
          /\ resp'.status \in {"Unauthorized", "Forbidden"}
          /\ Presented.kind # "missing" => resp'.status = "Unauthorized"]_vars

\* C14 witness: a debit was sent with the token of the stored user after its
\* expiry, while a budget of its category exists; it was refused and the
\* budget and the transactions are as they were.
C14_ExpiredTokenDebitRefused ==
    /\ resp.op = "create_transaction"
    /\ resp.status = "Unauthorized"
    /\ Presented.kind = "bearer"
    /\ Presented.token.sub \in UserIds
    /\ now > Presented.token.exp
    /\ Len(budgets) > 0
    /\ \A i \in 1..Len(budgets) : budgets[i].spent_amount = 0
    /\ transactions = <<>>

\* coll without its element at position i, the others in their order.
WithoutPosition(coll, after, i) ==
    /\ Len(after) = Len(coll) - 1
    /\ \A k \in 1..Len(after) : after[k] = (IF k < i THEN coll[k] ELSE coll[k + 1])

\* C16: delete(id) on Employee or Student answers NotFound and changes
\* nothing when no record has the id; otherwise it answers OK and removes one
\* record, one that has the id, and every other record of every collection,
\* the attendance and payroll records that reference the id included, is as it
\* was.
C16_DeleteRemovesOnlyThatRecord ==
    [][/\ resp'.op = "delete_employee" =>
            /\ UNCHANGED <<students, attendance, payroll, budgets, transactions,
                           users>>
            /\ IF \A i \in 1..Len(employees) : employees[i].employee_id # resp'.arg[1]
               THEN resp'.status = "NotFound" /\ employees' = employees
               ELSE /\ resp'.status = "OK"
                    /\ \E i \in 1..Len(employees) :
                          /\ employees[i].employee_id = resp'.arg[1]
                          /\ WithoutPosition(employees, employees', i)
       /\ resp'.op = "delete_student" =>
            /\ UNCHANGED <<employees, attendance, payroll, budgets, transactions,
                           users>>
            /\ IF \A i \in 1..Len(students) : students[i].student_id # resp'.arg[1]
               THEN resp'.status = "NotFound" /\ students' = students
               ELSE /\ resp'.status = "OK"
                    /\ \E i \in 1..Len(students) :
                          /\ students[i].student_id = resp'.arg[1]
                          /\ WithoutPosition(students, students', i)]_vars

\* C16 witness: an employee was deleted while a payroll record and an
\* attendance record reference its id and another employee is stored; the
\* references and the other employee are still there.
C16_DeletedWithReferences ==
    /\ resp.op = "delete_employee"
    /\ resp.status = "OK"
    /\ \A i \in 1..Len(employees) : employees[i].employee_id # resp.arg[1]
    /\ Len(employees) = 1
    /\ \E i \in 1..Len(payroll) : payroll[i].employee_id = resp.arg[1]
    /\ \E i \in 1..Len(attendance) : attendance[i].person_id = resp.arg[1]

\* The sum of the amounts of the debit transactions of category c in coll.
RECURSIVE SumOfDebits(_, _)
SumOfDebits(coll, c) ==
    IF coll = <<>> THEN 0
    ELSE (IF Head(coll).category = c /\ Head(coll).transaction_type = "debit"
          THEN Head(coll).amount ELSE 0)
         + SumOfDebits(Tail(coll), c)

\* C17: with one budget per category, created before the first transaction
\* and never moved to another category, whenever no create_transaction is
\* between its insert and its budget update the budget's spent_amount is the
\* sum of the amounts of the stored debit transactions of its category,
\* whatever the interleaving of concurrent create_transaction and
\* update_budget requests.
C17_SpentIsSumOfDebits ==
    (\A c \in Clients : ~AtStep(c, "transaction_inc")) =>
       \A i \in 1..Len(budgets) :
          budgets[i].spent_amount = SumOfDebits(transactions, budgets[i].category)

\* C17 witness: an update_budget that read the budget before any debit is
\* still between its find_one and its $set while two debits of the budget's
\* category have completed; the budget carries both amounts.
C17_DebitsCountedDuringUpdate ==
    /\ \A c \in Clients : ~AtStep(c, "transaction_inc")
    /\ \E c \in Clients, i \in 1..Len(budgets) :
          /\ AtStep(c, "budget_set")
          /\ reqs[c].local[1].id = budgets[i].id
          /\ reqs[c].local[1].spent_amount = 0
          /\ budgets[i].spent_amount = 2000
          /\ SumOfDebits(transactions, budgets[i].category) = 2000

====
